---- MODULE Spec2Model ----
(***************************************************************************)
(* Model of trpc-formdata's client link (src/src/client.ts).               *)
(*                                                                         *)
(* JavaScript objects live on a heap: an address ("@...") maps to an       *)
(* ordered list of own properties [k, v].  Property values are strings:    *)
(* an address (a reference to another object), a function reference        *)
(* ("fn:..."), "undefined", or a primitive.  Object spread, rest           *)
(* destructuring and property assignment are computed on these lists, so   *)
(* aliasing and in-place mutation are expressible.                         *)
(***************************************************************************)
EXTENDS Naturals, Sequences, FiniteSets, TLC

VARIABLES
  heap,      \* the objects of the link setup, by address
  passedIn,  \* the caller's objects as they were when formDataLink was called
  fallback,  \* the falseCaseOverride argument
  calls,     \* the operations issued through the link
  net,       \* the latest request a branch has sent
  util       \* one run of a converter or of a validation schema

vars == <<heap, passedIn, fallback, calls, net, util>>

(* ------------------------------ bounds --------------------------------- *)

\* number of outgoing calls issued through the link
MaxCalls == 2
\* largest number of entries of a header object handed to the fetch adapter
MaxHeaders == 3
\* largest number of entries of a FormData given to a converter or schema
MaxEntries == 3
\* largest number of keys of an object given to objectToFormData
MaxKeys == 2
\* largest number of items of an array value of such an object
MaxItems == 2
\* largest file size, in bytes
MaxSize == 3

(* --------------------------- JavaScript values -------------------------- *)

Undefined == "undefined"

\* addresses of the objects of one link setup
ConfigAddrs ==
  {"@opts", "@T", "@Tfn", "@Tin", "@Tout", "@adj", "@Tadj", "@adapter",
   "@httpLink", "@batch", "@fallback", "@split"}

\* addresses of the objects of one fetch invocation
RequestAddrs == {"@o", "@h", "@h1", "@h2", "@o2"}

Addrs == ConfigAddrs \cup RequestAddrs

FnRefs ==
  {"fn:userFetch", "fn:fetch", "fn:S", "fn:D", "fn:Sin", "fn:Din",
   "fn:Sout", "fn:Dout", "fn:identity", "fn:condition"}

\* objects that are callable: a function or class with properties of its
\* own, and the closure fetchFn returns
FunctionAddrs == {"@Tfn", "@adapter"}

TypeOf(v) ==
  IF v \in FunctionAddrs THEN "function"
  ELSE IF v \in Addrs THEN "object"
  ELSE IF v \in FnRefs THEN "function"
  ELSE IF v = Undefined THEN "undefined"
  ELSE "string"

\* the values an operation's input is drawn from
InputValues ==
  {"FormData#1", "null", Undefined, "object", "string", "number", "File"}

\* prototype chain of a value (constructors, nearest first)
ProtoChain(v) ==
  CASE v = "FormData#1" -> <<"FormData", "Object">>
    [] v = "File" -> <<"File", "Blob", "Object">>
    [] v = "object" -> <<"Object">>
    [] OTHER -> <<>>

InstanceOf(v, ctor) ==
  \E i \in 1..Len(ProtoChain(v)) : ProtoChain(v)[i] = ctor

(* ------------------------- JavaScript objects --------------------------- *)

Prop(k, v) == [k |-> k, v |-> v]

Has(o, k) == \E i \in 1..Len(o) : o[i].k = k

Get(o, k) ==
  IF Has(o, k) THEN o[CHOOSE i \in 1..Len(o) : o[i].k = k].v ELSE Undefined

Digits == <<"0", "1", "2", "3", "4", "5", "6", "7", "8", "9">>

\* the value of a decimal digit character
DigitValue(c) == CHOOSE d \in 0..(Len(Digits) - 1) : Digits[d + 1] = c

\* every character of s is a decimal digit
IsDigits(s) ==
  /\ Len(s) >= 1
  /\ \A i \in 1..Len(s) :
       \E d \in 1..Len(Digits) : SubSeq(s, i, i) = Digits[d]

RECURSIVE DigitsLess(_, _)
\* a < b, for digit strings of one length
DigitsLess(a, b) ==
  IF Len(a) = 0 THEN FALSE
  ELSE \/ DigitValue(SubSeq(a, 1, 1)) < DigitValue(SubSeq(b, 1, 1))
       \/ /\ SubSeq(a, 1, 1) = SubSeq(b, 1, 1)
          /\ DigitsLess(SubSeq(a, 2, Len(a)), SubSeq(b, 2, Len(b)))

\* a < b as numbers, for digit strings without leading zeros
IndexLess(a, b) ==
  Len(a) < Len(b) \/ (Len(a) = Len(b) /\ DigitsLess(a, b))

\* the largest array index, 2^32 - 2
MaxArrayIndex == "4294967294"

\* k is an array index: the decimal name, without leading zeros, of an
\* integer from 0 to 2^32 - 2
IsArrayIndex(k) ==
  /\ IsDigits(k)
  /\ k = Digits[1] \/ SubSeq(k, 1, 1) # Digits[1]
  /\ ~IndexLess(MaxArrayIndex, k)

\* o[k] = v: an existing key keeps its position; a new key that is an array
\* index goes among the array indices, which come first in ascending
\* order; any other new key goes last
Put(o, k, v) ==
  IF Has(o, k)
  THEN [i \in 1..Len(o) |-> IF o[i].k = k THEN Prop(k, v) ELSE o[i]]
  ELSE IF IsArrayIndex(k)
  THEN LET n == Cardinality({i \in 1..Len(o) :
                               IsArrayIndex(o[i].k) /\ IndexLess(o[i].k, k)})
       IN SubSeq(o, 1, n) \o <<Prop(k, v)>> \o SubSeq(o, n + 1, Len(o))
  ELSE Append(o, Prop(k, v))

RECURSIVE Assign(_, _)
\* Object.assign(target, src): copies src's own properties in order
Assign(target, src) ==
  IF src = <<>> THEN target
  ELSE Assign(Put(target, Head(src).k, Head(src).v), Tail(src))

\* { ...src }
Spread(src) == Assign(<<>>, src)

\* const { [k]: _, ...rest } = o
Rest(o, k) == SelectSeq(o, LAMBDA e : e.k # k)

Keys(o) == {o[i].k : i \in 1..Len(o)}

\* allocation of (or assignment to) the object at address a
Store(h, a, o) == [x \in DOMAIN h \cup {a} |-> IF x = a THEN o ELSE h[x]]

\* application of a function reference to a value
Apply(fn, x) ==
  CASE fn = "fn:identity" -> x
    [] fn = "fn:S" -> "S(" \o x \o ")"
    [] fn = "fn:Sin" -> "Sin(" \o x \o ")"
    [] fn = "fn:Sout" -> "Sout(" \o x \o ")"
    [] fn = "fn:D" -> "D(" \o x \o ")"
    [] fn = "fn:Din" -> "Din(" \o x \o ")"
    [] fn = "fn:Dout" -> "Dout(" \o x \o ")"
    [] OTHER -> Undefined

(* ------------------------- the caller's options ------------------------- *)

FetchChoices == {"absent", "given"}
\* no transformer key, an undefined one, a plain object with serialize and
\* deserialize, a function (or class) carrying serialize and deserialize,
\* or the combined { input, output } form
TransformerChoices == {"absent", "undefined", "pair", "function", "combined"}
FallbackChoices == {Undefined, "@fallback"}

OptsObject(f, t) ==
  <<Prop("url", "http://x/")>>
  \o (IF f = "given" THEN <<Prop("fetch", "fn:userFetch")>> ELSE <<>>)
  \o (CASE t = "absent" -> <<>>
        [] t = "undefined" -> <<Prop("transformer", Undefined)>>
        [] t = "function" -> <<Prop("transformer", "@Tfn")>>
        [] OTHER -> <<Prop("transformer", "@T")>>)
  \o <<Prop("methodOverride", "POST")>>

CallerHeap(f, t, fb) ==
  LET h0 == [a \in {"@opts"} |-> OptsObject(f, t)]
      h1 == CASE t = "pair" ->
                   Store(h0, "@T", <<Prop("serialize", "fn:S"),
                                      Prop("deserialize", "fn:D")>>)
              [] t = "function" ->
                   Store(h0, "@Tfn", <<Prop("serialize", "fn:S"),
                                        Prop("deserialize", "fn:D")>>)
              [] t = "combined" ->
                   Store(Store(Store(h0, "@T",
                       <<Prop("input", "@Tin"), Prop("output", "@Tout")>>),
                     "@Tin", <<Prop("serialize", "fn:Sin"),
                               Prop("deserialize", "fn:Din")>>),
                     "@Tout", <<Prop("serialize", "fn:Sout"),
                                Prop("deserialize", "fn:Dout")>>)
              [] OTHER -> h0
  IN IF fb = "@fallback"
     THEN Store(h1, "@fallback", <<Prop("kind", "custom")>>)
     ELSE h1

\* the heap restricted to the objects the caller passed in
CallerAddrs == {"@opts", "@T", "@Tfn", "@Tin", "@Tout", "@fallback"}
CallerView(h) == [a \in DOMAIN h \cap CallerAddrs |-> h[a]]

(* ------------------------------ formDataLink ---------------------------- *)

\* fetchFn(providedFetch): the closure keeps the fetch it was given
FetchFnClosure(providedFetch) == <<Prop("providedFetch", providedFetch)>>

\* mutant: a default (empty) transformer is put in when none is given
OptsAdjustedLiteralDefaultT(h) ==
  LET o == Put(Spread(h["@opts"]), "fetch", "@adapter")
  IN IF Get(o, "transformer") = Undefined
     THEN Put(o, "transformer", "@Tadj") ELSE o

\* { ...opts, fetch: fetchFn(opts.fetch) }
OptsAdjustedLiteral(h) == Put(Spread(h["@opts"]), "fetch", "@adapter")

\* mutant: no copy is made, optsAdjusted is the caller's object
AdjAddrAliased == "@opts"

\* the object literal yields a fresh object
AdjAddr == "@adj"

\* opts?.transformer && typeof opts.transformer === "object"
\*   && "deserialize" in opts.transformer
NeedsAdjust(h) ==
  LET t == Get(h["@opts"], "transformer")
  IN /\ t # Undefined
     /\ TypeOf(t) = "object"
     /\ Has(h[t], "deserialize")

\* { serialize: (data) => data, deserialize: opts.transformer.deserialize }
AdjustedTransformer(h) ==
  LET t == Get(h["@opts"], "transformer")
  IN <<Prop("serialize", "fn:identity"),
       Prop("deserialize", Get(h[t], "deserialize"))>>

\* the transformer literal yields a fresh object
TadjAddr == "@Tadj"

\* mutant: the batching transport is given the adjusted options
BatchOptsAdjusted == AdjAddr

\* httpBatchLink(opts): built from the options as passed in
BatchOpts == "@opts"

\* mutant: the batching transport is preferred over the override
FalseCaseBatchFirst(h, fb) ==
  [heap |-> Store(h, "@batch", <<Prop("kind", "httpBatchLink"),
                                  Prop("opts", BatchOpts)>>),
   link |-> "@batch"]

\* mutant: the false branch is a second single-request transport
FalseCaseSecondHttpLink(h, fb) ==
  IF fb # Undefined /\ fb # "null"
  THEN [heap |-> h, link |-> fb]
  ELSE [heap |-> Store(h, "@batch", <<Prop("kind", "httpLink"),
                                       Prop("opts", AdjAddr)>>),
        link |-> "@batch"]

\* falseCaseOverride ?? httpBatchLink(opts)
FalseCase(h, fb) ==
  IF fb # Undefined /\ fb # "null"
  THEN [heap |-> h, link |-> fb]
  ELSE [heap |-> Store(h, "@batch", <<Prop("kind", "httpBatchLink"),
                                       Prop("opts", BatchOpts)>>),
        link |-> "@batch"]

\* the heap after formDataLink(opts, falseCaseOverride) has returned
FormDataLinkHeap(h, fb) ==
  LET hA == Store(h, "@adapter",
                  FetchFnClosure(Get(h["@opts"], "fetch")))
      hB == Store(hA, AdjAddr, OptsAdjustedLiteral(hA))
      hC == IF NeedsAdjust(hA)
            THEN Store(Store(hB, TadjAddr, AdjustedTransformer(hA)),
                       AdjAddr, Put(hB[AdjAddr], "transformer", TadjAddr))
            ELSE hB
      hD == Store(hC, "@httpLink", <<Prop("kind", "httpLink"),
                                      Prop("opts", AdjAddr)>>)
      fc == FalseCase(hD, fb)
  IN Store(fc.heap, "@split",
           <<Prop("condition", "fn:condition"),
             Prop("true", "@httpLink"),
             Prop("false", fc.link)>>)

Built == "@split" \in DOMAIN heap

\* mutant: files are taken for forms too
ConditionFileToo(op) ==
  InstanceOf(op.input, "FormData") \/ InstanceOf(op.input, "Blob")

\* condition: (op) => op.input instanceof FormData
Condition(op) == InstanceOf(op.input, "FormData")

\* mutant: while a single request is in flight, the next call is batched
SplitTargetBusy(h, op) ==
  IF /\ Condition(op)
     /\ ~\E d \in DOMAIN calls :
          calls[d].pc = "inflight" /\ calls[d].target = Get(h["@split"], "true")
  THEN Get(h["@split"], "true")
  ELSE Get(h["@split"], "false")

\* splitLink: the branch link an operation is handed to
SplitTarget(h, op) ==
  IF Condition(op) THEN Get(h["@split"], "true")
  ELSE Get(h["@split"], "false")

(* ------------------------------- fetchFn -------------------------------- *)

EmptyHeap == [a \in {} |-> <<>>]

\* { ...options?.headers }
HeadersCopy(rh, options) ==
  IF options = Undefined THEN <<>>
  ELSE LET hd == Get(rh[options], "headers")
       IN IF hd = Undefined THEN <<>> ELSE Spread(rh[hd])

\* options?.body instanceof FormData
IsFormDataBody(rh, options) ==
  options # Undefined /\ InstanceOf(Get(rh[options], "body"), "FormData")

LowerCase(k) == IF k = "Content-Type" THEN "content-type" ELSE k

\* mutant: the key is matched as HTTP matches header names
SanitizeAnyCase(headers, isFormData) ==
  IF isFormData
  THEN SelectSeq(headers, LAMBDA e : LowerCase(e.k) # "content-type")
  ELSE headers

\* if (isFormData) { const { "Content-Type": _, ...restHeaders } = headers;
\*                   headers = restHeaders; }
Sanitize(headers, isFormData) ==
  IF isFormData THEN Rest(headers, "Content-Type") ELSE headers

\* providedFetch ?? fetch
Delegate(providedFetch) ==
  IF providedFetch # Undefined /\ providedFetch # "null"
  THEN providedFetch ELSE "fn:fetch"

\* { ...options, headers }
DelegateOptions(rh, options, hdAddr) ==
  Put(IF options = Undefined THEN <<>> ELSE Spread(rh[options]),
      "headers", hdAddr)

\* mutant: the header is deleted from the object passed in, not from a copy
FetchFnInPlace(providedFetch, url, options, rh) ==
  LET isFormData == IsFormDataBody(rh, options)
      hd == IF options = Undefined THEN Undefined
            ELSE Get(rh[options], "headers")
      h0 == IF hd # Undefined /\ isFormData
            THEN Store(rh, hd, Rest(rh[hd], "Content-Type")) ELSE rh
      h1 == Store(h0, "@h1", HeadersCopy(h0, options))
      h3 == Store(h1, "@o2", DelegateOptions(h1, options, "@h1"))
  IN [heap |-> h3,
      invocations |-> <<[fn |-> Delegate(providedFetch), url |-> url,
                         options |-> "@o2"]>>]

\* mutant: the delegate is called once to probe and once more to send
FetchFnTwice(providedFetch, url, options, rh) ==
  LET h1 == Store(rh, "@h1",
                  Sanitize(HeadersCopy(rh, options),
                           IsFormDataBody(rh, options)))
      h3 == Store(h1, "@o2", DelegateOptions(h1, options, "@h1"))
      call == [fn |-> Delegate(providedFetch), url |-> url, options |-> "@o2"]
  IN [heap |-> h3, invocations |-> <<call, call>>]

\* one invocation of the function fetchFn(providedFetch) returns: the request
\* heap it leaves and the calls it makes
FetchFn(providedFetch, url, options, rh) ==
  LET isFormData == IsFormDataBody(rh, options)
      h1 == Store(rh, "@h1", HeadersCopy(rh, options))
      h2 == IF isFormData
            THEN Store(h1, "@h2", Sanitize(h1["@h1"], isFormData))
            ELSE h1
      hdAddr == IF isFormData THEN "@h2" ELSE "@h1"
      h3 == Store(h2, "@o2", DelegateOptions(h2, options, hdAddr))
  IN [heap |-> h3,
      invocations |-> <<[fn |-> Delegate(providedFetch), url |-> url,
                         options |-> "@o2"]>>]

(* ----------------------- requests of the transports --------------------- *)

HeaderKeys == {"Content-Type", "content-type", "Authorization"}

HeaderValue(k) ==
  CASE k = "Authorization" -> "Bearer t"
    [] k = "Content-Type" -> "application/json"
    [] OTHER -> "text/plain"

\* header objects: distinct keys, any order, at most MaxHeaders of them
HeaderObjects ==
  LET lists == UNION {[1..n -> HeaderKeys] : n \in 0..MaxHeaders}
  IN {[i \in DOMAIN ks |-> Prop(ks[i], HeaderValue(ks[i]))] :
        ks \in {l \in lists : \A i, j \in DOMAIN l : i # j => l[i] # l[j]}}

Urls == {"http://x/a", "http://x/b"}

\* the bodies a transport may send for an input
Bodies(input) ==
  {"json", Undefined} \cup (IF InstanceOf(input, "FormData") THEN {input} ELSE {})

OptionsObject(body, hd) ==
  <<Prop("method", "POST")>>
  \o (IF body = Undefined THEN <<>> ELSE <<Prop("body", body)>>)
  \o (IF hd = Undefined THEN <<>> ELSE <<Prop("headers", hd)>>)

\* the (options, heap) pairs a transport may hand to its fetch
Requests(input) ==
  {[options |-> Undefined, heap |-> EmptyHeap]}
  \cup {[options |-> "@o",
         heap |-> [a \in {"@o"} |-> OptionsObject(b, Undefined)]] :
          b \in Bodies(input)}
  \cup {[options |-> "@o",
         heap |-> Store([a \in {"@o"} |-> OptionsObject(b, "@h")], "@h", ho)] :
          b \in Bodies(input), ho \in HeaderObjects}

\* a transport built from the options at cfg performs its request: a fetch
\* that is an adapter closure runs fetchFn, any other is called directly
TransportFetch(h, cfg, url, rq) ==
  LET f == Get(h[cfg], "fetch")
  IN IF f \in Addrs
     THEN FetchFn(Get(h[f], "providedFetch"), url, rq.options, rq.heap)
     ELSE [heap |-> rq.heap,
           invocations |-> <<[fn |-> IF f = Undefined THEN "fn:fetch" ELSE f,
                              url |-> url, options |-> rq.options]>>]

(* ------------------------------ the machine ----------------------------- *)

CallIds == 1..MaxCalls

\* what the delegate fetch of a call did, and what the call's fetch gave back
NoOutcome == [kind |-> "none", value |-> Undefined]
Pending == [state |-> "pending", value |-> Undefined]

IdleCall ==
  [pc |-> "idle", input |-> Undefined, target |-> Undefined, evals |-> 0,
   netOps |-> 0, outcome |-> NoOutcome, result |-> Pending]

\* no converter or schema is being run
NoUtil == [op |-> "none"]

NoNet ==
  [call |-> 0, via |-> "none", config |-> Undefined, url |-> Undefined,
   options |-> Undefined, before |-> EmptyHeap, after |-> EmptyHeap,
   invocations |-> <<>>]

Init ==
  /\ \E f \in FetchChoices, t \in TransformerChoices, fb \in FallbackChoices :
       /\ heap = CallerHeap(f, t, fb)
       /\ passedIn = CallerHeap(f, t, fb)
       /\ fallback = fb
  /\ calls = [c \in CallIds |-> IdleCall]
  /\ net = NoNet
  /\ util = NoUtil

\* formDataLink(opts, falseCaseOverride)
FormDataLink ==
  /\ ~Built
  /\ heap' = FormDataLinkHeap(heap, fallback)
  /\ UNCHANGED <<passedIn, fallback, calls, net, util>>

\* an operation enters the link: splitLink evaluates the condition and
\* picks the branch
Dispatch(c, v) ==
  /\ Built
  /\ calls[c].pc = "idle"
  /\ \A d \in CallIds : d < c => calls[d].pc # "idle"
  /\ calls' = [calls EXCEPT ![c] =
       [pc |-> "routed", input |-> v,
        target |-> SplitTarget(heap, [input |-> v]),
        evals |-> calls[c].evals + 1, netOps |-> 0,
        outcome |-> NoOutcome, result |-> Pending]]
  /\ UNCHANGED <<heap, passedIn, fallback, net, util>>

\* the httpLink or httpBatchLink branch sends the call's request
TransportRequest(c, url, rq) ==
  /\ calls[c].pc = "routed"
  /\ Get(heap[calls[c].target], "kind") \in {"httpLink", "httpBatchLink"}
  /\ LET cfg == Get(heap[calls[c].target], "opts")
         r == TransportFetch(heap, cfg, url, rq)
     IN net' = [call |-> c, via |-> Get(heap[calls[c].target], "kind"),
                config |-> cfg, url |-> url, options |-> rq.options,
                before |-> rq.heap, after |-> r.heap,
                invocations |-> r.invocations]
  /\ calls' = [calls EXCEPT ![c].pc = "inflight",
                            ![c].netOps = calls[c].netOps + Len(net'.invocations)]
  /\ UNCHANGED <<heap, passedIn, fallback, util>>

\* the caller's override link takes the call
FallbackHandle(c) ==
  /\ calls[c].pc = "routed"
  /\ Get(heap[calls[c].target], "kind") = "custom"
  /\ net' = [NoNet EXCEPT !.call = c, !.via = "custom",
                          !.config = calls[c].target]
  /\ calls' = [calls EXCEPT ![c].pc = "inflight"]
  /\ UNCHANGED <<heap, passedIn, fallback, util>>

\* what a delegate fetch may do once called
DelegateOutcomes ==
  {[kind |-> "fulfils", value |-> "response#1"],
   [kind |-> "rejects", value |-> "error#1"],
   [kind |-> "throws", value |-> "error#2"]}

\* mutant: a failed request is sent again and its error replaced
FetchFnResultRetry(outcome) ==
  IF outcome.kind = "fulfils"
  THEN [result |-> [state |-> "fulfilled", value |-> outcome.value],
        retries |-> 0]
  ELSE [result |-> [state |-> "rejected", value |-> "error#fetch-failed"],
        retries |-> 1]

\* const response = (providedFetch ?? fetch)(...); return response;
\* the async function's promise follows the delegate's, or is rejected with
\* what the delegate threw; nothing is caught and the delegate is not called
\* again
FetchFnResult(outcome) ==
  [result |-> [state |-> IF outcome.kind = "fulfils" THEN "fulfilled"
                         ELSE "rejected",
               value |-> outcome.value],
   retries |-> 0]

\* the call's fetch is the adapter closure
CallViaAdapter(c) ==
  /\ Get(heap[calls[c].target], "kind") = "httpLink"
  /\ Get(heap[Get(heap[calls[c].target], "opts")], "fetch") \in Addrs

\* the delegate fetch of a call in flight fulfils, rejects or has thrown
Settle(c, outcome) ==
  /\ calls[c].pc = "inflight"
  /\ LET r == IF CallViaAdapter(c) THEN FetchFnResult(outcome)
              ELSE [result |-> [state |-> IF outcome.kind = "fulfils"
                                          THEN "fulfilled" ELSE "rejected",
                                value |-> outcome.value],
                    retries |-> 0]
     IN calls' = [calls EXCEPT ![c].pc = "done",
                               ![c].outcome = outcome,
                               ![c].result = r.result,
                               ![c].netOps = calls[c].netOps + r.retries]
  /\ UNCHANGED <<heap, passedIn, fallback, net, util>>

\* the request a transport sends when only the routing is looked at: the
\* body it builds for the input, under the content-type defaults
PlainRequests(input) ==
  {[options |-> "@o",
    heap |-> Store([a \in {"@o"} |->
                      OptionsObject(IF InstanceOf(input, "FormData")
                                    THEN input ELSE "json", "@h")],
                   "@h", <<Prop("Content-Type", HeaderValue("Content-Type"))>>)]}

Next ==
  \/ FormDataLink
  \/ \E c \in CallIds, v \in InputValues : Dispatch(c, v)
  \/ \E c \in CallIds : \E rq \in PlainRequests(calls[c].input) :
       TransportRequest(c, "http://x/a", rq)
  \/ \E c \in CallIds : FallbackHandle(c)
  \/ \E c \in CallIds, o \in DelegateOutcomes : Settle(c, o)

\* any number of concurrent calls through one link
Spec == Init /\ [][Next]_vars

NextFetch ==
  \/ FormDataLink
  \/ \E v \in InputValues : Dispatch(1, v)
  \/ \E url \in Urls : \E rq \in Requests(calls[1].input) :
       TransportRequest(1, url, rq)
  \/ FallbackHandle(1)
  \/ \E o \in DelegateOutcomes : Settle(1, o)

\* one call, every request a transport may hand to its fetch
SpecFetch == Init /\ [][NextFetch]_vars

(* ----------------------- util.ts: the converters ------------------------ *)

\* FormData entry values: strings and files
StringValue(x) == [t |-> "string", s |-> x, size |-> 0, mime |-> ""]
FileValue(n, m) == [t |-> "file", s |-> "upload", size |-> n, mime |-> m]

MimeTypes == {"application/pdf", "image/png"}
FileValues == {FileValue(n, m) : n \in 0..MaxSize, m \in MimeTypes}

\* the entry values the converters are run on
EntryValues ==
  {StringValue("a"), StringValue("null"), FileValue(1, "application/pdf")}

\* the keys entries are appended under; "0" is an array index, "toString"
\* and "__proto__" are also names of members every plain object inherits
EntryKeys == {"name", "0", "toString", "__proto__"}

\* the own property names of Object.prototype, which the in operator finds
\* on {}
ObjectPrototypeKeys ==
  {"constructor", "__defineGetter__", "__defineSetter__", "hasOwnProperty",
   "__lookupGetter__", "__lookupSetter__", "isPrototypeOf",
   "propertyIsEnumerable", "toString", "valueOf", "__proto__",
   "toLocaleString"}

\* the own string-named property names of Array.prototype
ArrayPrototypeKeys ==
  {"length", "constructor", "at", "concat", "copyWithin", "fill", "find",
   "findIndex", "findLast", "findLastIndex", "lastIndexOf", "pop", "push",
   "reverse", "shift", "unshift", "slice", "sort", "splice", "includes",
   "indexOf", "join", "keys", "entries", "values", "forEach", "filter",
   "flat", "flatMap", "map", "every", "some", "reduce", "reduceRight",
   "toLocaleString", "toString", "toReversed", "toSorted", "toSpliced",
   "with"}

\* a property value of a plain object: one value, or an array of values
One(v) == [kind |-> "one", items |-> <<v>>]
Array(vs) == [kind |-> "array", items |-> vs]

\* FormData.append(key, value): strings and files are kept, anything else
\* is turned into a string
ToFormValue(v) ==
  IF v.t \in {"string", "file"} THEN v ELSE StringValue(v.s)

FormDataAppend(fd, k, v) == Append(fd, Prop(k, ToFormValue(v)))

RECURSIVE AppendAll(_, _, _)
\* for (const item of value) formData.append(key, item)
AppendAll(fd, k, items) ==
  IF items = <<>> THEN fd
  ELSE AppendAll(FormDataAppend(fd, k, Head(items)), k, Tail(items))

RECURSIVE ObjectToFormDataFrom(_, _)
ObjectToFormDataFrom(fd, data) ==
  IF data = <<>> THEN fd
  ELSE LET key == Head(data).k
           value == Head(data).v
       IN ObjectToFormDataFrom(
            IF value.kind = "array" THEN AppendAll(fd, key, value.items)
            ELSE FormDataAppend(fd, key, value.items[1]),
            Tail(data))

\* objectToFormData(data)
ObjectToFormData(data) == ObjectToFormDataFrom(<<>>, data)

\* the prototype of the object literal {}
ObjectPrototype ==
  One([t |-> "object", s |-> "Object.prototype", size |-> 0, mime |-> ""])

RECURSIVE NumberToString(_)
\* the decimal name of an array index or length
NumberToString(n) ==
  IF n < Len(Digits) THEN Digits[n + 1]
  ELSE NumberToString(n \div Len(Digits)) \o Digits[(n % Len(Digits)) + 1]

\* the positions of an array whose index name is key
IndexOf(items, key) == {i \in 1..Len(items) : NumberToString(i - 1) = key}

\* the property names obj inherits: those of Object.prototype and, once an
\* array has become the prototype, those of the array and of Array.prototype
InheritedKeys(proto) ==
  ObjectPrototypeKeys
  \cup (IF proto.kind = "array"
        THEN ArrayPrototypeKeys
             \cup {NumberToString(i - 1) : i \in 1..Len(proto.items)}
        ELSE {})

\* the value obj[key] of an inherited property; "__proto__" reads the
\* prototype itself
InheritedValue(proto, k) ==
  IF k = "__proto__" THEN proto
  ELSE IF proto.kind = "array" /\ IndexOf(proto.items, k) # {}
  THEN One(proto.items[CHOOSE i \in IndexOf(proto.items, k) : TRUE])
  ELSE IF proto.kind = "array" /\ k = "length"
  THEN One([t |-> "number", s |-> NumberToString(Len(proto.items)),
            size |-> 0, mime |-> ""])
  ELSE IF proto.kind = "array" /\ k \in ArrayPrototypeKeys
  THEN One([t |-> "function", s |-> "Array.prototype." \o k,
            size |-> 0, mime |-> ""])
  ELSE One([t |-> "function", s |-> "Object.prototype." \o k,
            size |-> 0, mime |-> ""])

\* key in obj: own properties and those found on the prototype chain
KeyIn(obj, proto, key) == Has(obj, key) \/ key \in InheritedKeys(proto)

\* obj[key], for a key that is in obj
Member(obj, proto, key) ==
  IF Has(obj, key) THEN Get(obj, key) ELSE InheritedValue(proto, key)

\* obj["__proto__"] reads and writes the prototype through the accessor
\* inherited from Object.prototype; it never becomes an own property
IsProtoAccessor(obj, key) == key = "__proto__" /\ ~Has(obj, key)

\* mutant: a repeated key keeps its latest value only
ToObjectStepLastWins(obj, proto, key, value) == Put(obj, key, One(value))

\* the body of formDataToObject's loop: the own properties of obj after it
ToObjectStep(obj, proto, key, value) ==
  IF IsProtoAccessor(obj, key) THEN obj
  ELSE IF KeyIn(obj, proto, key)
  THEN IF Member(obj, proto, key).kind = "array"
       THEN Put(obj, key, Array(Append(Member(obj, proto, key).items, value)))
       ELSE Put(obj, key, Array(<<Member(obj, proto, key).items[1], value>>))
  ELSE Put(obj, key, One(value))

\* the body of formDataToObject's loop: the prototype of obj after it; under
\* the key "__proto__" the array built or pushed to is the prototype
ProtoStep(obj, proto, key, value) ==
  IF IsProtoAccessor(obj, key)
  THEN IF Member(obj, proto, key).kind = "array"
       THEN Array(Append(Member(obj, proto, key).items, value))
       ELSE Array(<<Member(obj, proto, key).items[1], value>>)
  ELSE proto

RECURSIVE FormDataToObjectFrom(_, _, _)
FormDataToObjectFrom(obj, proto, entries) ==
  IF entries = <<>> THEN obj
  ELSE FormDataToObjectFrom(
         ToObjectStep(obj, proto, Head(entries).k, Head(entries).v),
         ProtoStep(obj, proto, Head(entries).k, Head(entries).v),
         Tail(entries))

\* formDataToObject(formData)
FormDataToObject(fd) == FormDataToObjectFrom(<<>>, ObjectPrototype, fd)

\* the FormData values given to formDataToObject
FormDatas ==
  UNION {[1..n -> {Prop(k, v) : k \in EntryKeys, v \in EntryValues}] :
           n \in 0..MaxEntries}

(* -------------------------- zod.ts: the schemas ------------------------- *)

\* an optional number or list is a set with no or one element
Absent == {}
Given(x) == {x}

\* zFile(opts): z.instanceof(File), refined once per option given; each
\* refine is assigned back to schema
ZFileAccepts(opts, v) ==
  /\ v.t = "file"
  /\ \A types \in opts.acceptedMimeTypes : v.mime \in types
  /\ \A max \in opts.maxSize : v.size <= max
  /\ \A min \in opts.minSize : v.size > min

\* a zod/v4 schema is a value: a check method returns a new schema with the
\* check added and leaves the schema it is called on as it was
WithCheck(schema, name, arg) ==
  [schema EXCEPT !.checks = Append(schema.checks, [name |-> name, arg |-> arg])]

\* an expression statement: the schema a check method returns is dropped
Dropped(schema, returned) == schema

\* z.file()
ZFile == [type |-> "file", checks |-> <<>>]

RECURSIVE WithChecks(_, _, _)
\* schema after the statements of one option each: if (option !== undefined)
\* schema.check(option, ...);
WithChecks(schema, names, options) ==
  IF names = <<>> THEN schema
  ELSE LET n == Head(names)
           next == IF options[n] # Absent
                   THEN Dropped(schema,
                          WithCheck(schema, n, CHOOSE x \in options[n] : TRUE))
                   ELSE schema
       IN WithChecks(next, Tail(names), options)

\* const fileSchema = z.file(); fileSchema.min(..); fileSchema.max(..);
\* fileSchema.mime(..);
FilesFileSchema(options) ==
  WithChecks(ZFile, <<"minSize", "maxSize", "acceptedMimeTypes">>, options)

\* const arraySchema = z.array(fileSchema); arraySchema.min(..);
\* arraySchema.max(..); return arraySchema;
FilesArraySchema(options) ==
  WithChecks([type |-> "array", checks |-> <<>>],
             <<"minFiles", "maxFiles">>, options)

CheckHolds(check, v) ==
  CASE check.name = "minSize" -> v.size >= check.arg
    [] check.name = "maxSize" -> v.size <= check.arg
    [] check.name = "acceptedMimeTypes" -> v.mime \in check.arg
    [] check.name = "minFiles" -> Len(v) >= check.arg
    [] check.name = "maxFiles" -> Len(v) <= check.arg
    [] OTHER -> TRUE

SchemaChecksHold(schema, v) ==
  \A i \in 1..Len(schema.checks) : CheckHolds(schema.checks[i], v)

\* (val as []).filter((v) => v !== "null")
IsNullPlaceholder(v) == v.t = "string" /\ v.s = "null"
FilterNulls(items) == SelectSeq(items, LAMBDA v : ~IsNullPlaceholder(v))

\* filesSchema(options) parsing the value of one property: the preprocess
\* step calls filter on it, which only an array has; the array schema then
\* validates what is left
FilesSchemaParse(options, present, val) ==
  IF ~present \/ val.kind # "array"
  THEN [status |-> "throws", value |-> <<>>]
  ELSE LET items == FilterNulls(val.items)
       IN IF /\ \A i \in 1..Len(items) :
                  /\ items[i].t = "file"
                  /\ SchemaChecksHold(FilesFileSchema(options), items[i])
             /\ SchemaChecksHold(FilesArraySchema(options), items)
          THEN [status |-> "ok", value |-> items]
          ELSE [status |-> "invalid", value |-> <<>>]

\* formDataInput(z.object({ files: filesSchema(options) })) parsing a
\* FormData: z.instanceof(FormData).transform(formDataToObject).pipe(schema)
FormDataInput(options, fd) ==
  LET obj == FormDataToObject(fd)
  IN FilesSchemaParse(options, Has(obj, "files"),
                      IF Has(obj, "files") THEN Get(obj, "files")
                      ELSE One(StringValue("")))

\* the options filesSchema is built with
FilesOptions ==
  [minSize : {Absent, Given(2)}, maxSize : {Absent, Given(2)},
   minFiles : {Absent, Given(2)}, maxFiles : {Absent, Given(2)},
   acceptedMimeTypes : {Absent, Given({"application/pdf"})}]

\* the options zFile is built with
FileOptions ==
  [minSize : {Absent} \cup {Given(n) : n \in 0..MaxSize},
   maxSize : {Absent} \cup {Given(n) : n \in 0..MaxSize},
   acceptedMimeTypes : {Absent, Given({"application/pdf"})}]

\* the values submitted under the key "files"
SubmittedValues ==
  {FileValue(1, "application/pdf"), FileValue(3, "image/png"),
   StringValue("null"), StringValue("a")}

Submissions ==
  UNION {[1..n -> {Prop("files", v) : v \in SubmittedValues}] :
           n \in 0..MaxEntries}

(* --------------------- the converters and schemas run ------------------- *)

UtilRun(op, fd, data, opts, file) ==
  [op |-> op, pc |-> "ready", fd |-> fd, data |-> data, opts |-> opts,
   file |-> file, out |-> <<>>]

NoOptions == [none |-> TRUE]
NoFile == StringValue("")

InitToObject ==
  \E fd \in FormDatas :
    util = UtilRun("formDataToObject", fd, <<>>, NoOptions, NoFile)

\* obj = formDataToObject(formData)
FormDataToObjectRun ==
  /\ util.op = "formDataToObject" /\ util.pc = "ready"
  /\ util' = [util EXCEPT !.pc = "done", !.out = FormDataToObject(util.fd)]
  /\ UNCHANGED <<heap, passedIn, fallback, calls, net>>

InitFormDataInput ==
  \E fd \in Submissions, o \in FilesOptions :
    util = UtilRun("formDataInput", fd, <<>>, o, NoFile)

\* formDataInput(z.object({ files: filesSchema(options) })).parse(formData)
FormDataInputRun ==
  /\ util.op = "formDataInput" /\ util.pc = "ready"
  /\ util' = [util EXCEPT !.pc = "done",
                          !.out = FormDataInput(util.opts, util.fd)]
  /\ UNCHANGED <<heap, passedIn, fallback, calls, net>>

InitZFile ==
  \E o \in FileOptions, f \in FileValues :
    util = UtilRun("zFile", <<>>, <<>>, o, f)

\* zFile(opts).safeParse(file)
ZFileRun ==
  /\ util.op = "zFile" /\ util.pc = "ready"
  /\ util' = [util EXCEPT !.pc = "done",
                          !.out = [status |-> IF ZFileAccepts(util.opts, util.file)
                                              THEN "ok" ELSE "invalid",
                                   value |-> <<util.file>>]]
  /\ UNCHANGED <<heap, passedIn, fallback, calls, net>>

\* the values of the objects given to objectToFormData
DataValues == {StringValue("a"), FileValue(1, "application/pdf")}

\* a property value: a form value, or an array of up to MaxItems of them
DataProperties ==
  {One(v) : v \in DataValues}
  \cup {Array(vs) : vs \in UNION {[1..n -> DataValues] : n \in 0..MaxItems}}

\* the own enumerable keys of the plain objects given to objectToFormData;
\* "__proto__" in an object literal sets the prototype and is no own key
DataKeys == EntryKeys \ {"__proto__"}

\* plain objects: up to MaxKeys distinct keys, created in any order
DataObjects ==
  LET keyLists == {ks \in UNION {[1..n -> DataKeys] : n \in 0..MaxKeys} :
                     \A i, j \in DOMAIN ks : i # j => ks[i] # ks[j]}
  IN UNION {{Spread([i \in DOMAIN ks |-> Prop(ks[i], ps[i])]) :
               ps \in [DOMAIN ks -> DataProperties]} : ks \in keyLists}

InitRoundTrip ==
  \E o \in DataObjects :
    util = UtilRun("roundTrip", <<>>, o, NoOptions, NoFile)

\* formDataToObject(objectToFormData(data))
RoundTripRun ==
  /\ util.op = "roundTrip" /\ util.pc = "ready"
  /\ util' = [util EXCEPT !.pc = "done",
                          !.fd = ObjectToFormData(util.data),
                          !.out = FormDataToObject(ObjectToFormData(util.data))]
  /\ UNCHANGED <<heap, passedIn, fallback, calls, net>>

InitUtil ==
  /\ heap = CallerHeap("absent", "absent", Undefined)
  /\ passedIn = heap
  /\ fallback = Undefined
  /\ calls = [c \in CallIds |-> IdleCall]
  /\ net = NoNet
  /\ \/ InitToObject
     \/ InitFormDataInput
     \/ InitZFile
     \/ InitRoundTrip

NextUtil ==
  \/ FormDataToObjectRun
  \/ FormDataInputRun
  \/ ZFileRun
  \/ RoundTripRun

\* one run of a converter or of a schema on one input
SpecUtil == InitUtil /\ [][NextUtil]_vars

(* ------------------------------- properties ----------------------------- *)

\* the multipart-form values among the inputs
FormDataInstances == {"FormData#1"}

Routed(c) == calls[c].pc # "idle"

\* the transformer option as the caller passed it
GivenTransformer == Get(passedIn["@opts"], "transformer")
GivenPair ==
  GivenTransformer # Undefined /\ Has(passedIn[GivenTransformer], "serialize")
GivenCombined ==
  GivenTransformer # Undefined /\ Has(passedIn[GivenTransformer], "input")

\* the options object the single-request transport was built from
HttpLinkOpts == heap[Get(heap["@httpLink"], "opts")]

\* the serialize a transport applies to an outgoing input, and the
\* deserialize it applies to a response, for a transformer in either
\* convention
OutgoingSerialize(h, t) ==
  IF Has(h[t], "input") THEN Get(h[Get(h[t], "input")], "serialize")
  ELSE Get(h[t], "serialize")
IncomingDeserialize(h, t) ==
  IF Has(h[t], "output") THEN Get(h[Get(h[t], "output")], "deserialize")
  ELSE Get(h[t], "deserialize")

\* C1: a call is routed to the single-request (httpLink) branch if and only
\* if its input is a FormData instance; every other input goes to the false
\* branch.
C1_RoutedIffFormData ==
  Built =>
    \A c \in CallIds :
      Routed(c) =>
        /\ (calls[c].target = Get(heap["@split"], "true"))
             <=> (calls[c].input \in FormDataInstances)
        /\ (calls[c].target = Get(heap["@split"], "false"))
             <=> (calls[c].input \notin FormDataInstances)
        /\ Get(heap[Get(heap["@split"], "true")], "kind") = "httpLink"

C1_Witness ==
  \E c, d \in CallIds :
    /\ Routed(c) /\ calls[c].input = "FormData#1"
    /\ calls[c].target = "@httpLink"
    /\ Routed(d) /\ calls[d].input = "File"
    /\ calls[d].target # "@httpLink"

\* the request went through the fetch adapter
ViaAdapter ==
  /\ net.via = "httpLink"
  /\ Get(heap[net.config], "fetch") = "@adapter"

MultipartRequest ==
  /\ net.options # Undefined
  /\ Get(net.before[net.options], "body") \in FormDataInstances

\* header names as HTTP compares them
IsContentTypeName(k) == k \in {"Content-Type", "content-type"}

\* the header object of the i-th call the adapter made
DelegateHeaders(i) ==
  net.after[Get(net.after[net.invocations[i].options], "headers")]

\* C2: for every multipart call, the request handed to the underlying fetch
\* carries no content-type header, header names compared as HTTP compares
\* them.
C2_NoContentTypeAnyCase ==
  (ViaAdapter /\ MultipartRequest) =>
    \A i \in 1..Len(net.invocations) :
      \A k \in Keys(DelegateHeaders(i)) : ~IsContentTypeName(k)

\* C3: whenever a transformer is supplied, in either convention, the
\* single-request branch has a transformer whose outgoing serialize is the
\* identity and whose deserialize is the caller's original one.
C3_SerializeBypassedBothConventions ==
  (Built /\ GivenTransformer # Undefined) =>
    LET t == Get(HttpLinkOpts, "transformer")
    IN /\ t # Undefined
       /\ \A x \in InputValues : Apply(OutgoingSerialize(heap, t), x) = x
       /\ IncomingDeserialize(heap, t)
            = IncomingDeserialize(passedIn, GivenTransformer)

\* C4: for every transformer T with serialize and deserialize, a plain
\* object or a function carrying the two, the transformer of the
\* single-request branch has T's deserialize, its serialize returns its
\* argument, and T's two fields are as they were.
C4_PairAdjusted ==
  (Built /\ GivenPair) =>
    LET t == Get(HttpLinkOpts, "transformer")
    IN /\ t # Undefined
       /\ Get(heap[t], "deserialize")
            = Get(passedIn[GivenTransformer], "deserialize")
       /\ \A x \in InputValues : Apply(Get(heap[t], "serialize"), x) = x
       /\ heap[GivenTransformer] = passedIn[GivenTransformer]

\* the header object the adapter was handed
GivenHeaders == net.before[Get(net.before[net.options], "headers")]

HasGivenHeaders ==
  net.options # Undefined /\ Get(net.before[net.options], "headers") # Undefined

\* C5: with a FormData body the adapter's headers are the given ones less
\* exactly the key "Content-Type", every other key with its value; with any
\* other body they equal the given ones.
C5_SanitizeReference ==
  (ViaAdapter /\ HasGivenHeaders) =>
    \A i \in 1..Len(net.invocations) :
      LET R == DelegateHeaders(i)
          H == GivenHeaders
      IN /\ Cardinality(Keys(R)) = Len(R)
         /\ IF MultipartRequest
            THEN /\ Keys(R) = Keys(H) \ {"Content-Type"}
                 /\ \A k \in Keys(R) : Get(R, k) = Get(H, k)
            ELSE /\ Keys(R) = Keys(H)
                 /\ \A k \in Keys(H) : Get(R, k) = Get(H, k)

C5_Witness ==
  /\ ViaAdapter /\ HasGivenHeaders /\ MultipartRequest
  /\ Keys(GivenHeaders) = {"Content-Type", "content-type", "Authorization"}
  /\ Len(net.invocations) = 1
  /\ Keys(DelegateHeaders(1)) = {"content-type", "Authorization"}

\* the fetch the caller passed, or the ambient one when there was none
GivenFetch ==
  IF Get(passedIn["@opts"], "fetch") = Undefined THEN "fn:fetch"
  ELSE Get(passedIn["@opts"], "fetch")

\* the objects reachable from the transformer at t agree in both heaps
SameTransformer(h, g, t) ==
  /\ t \in DOMAIN h /\ t \in DOMAIN g /\ h[t] = g[t]
  /\ \A k \in {"input", "output"} :
       Has(g[t], k) =>
         /\ Get(g[t], k) \in DOMAIN h
         /\ h[Get(g[t], k)] = g[Get(g[t], k)]

\* C6: without a fallback link, every non-multipart call goes to a batching
\* transport built from the options object as passed in: it has the caller's
\* fetch, not the adapter, and the caller's transformer with its serialize
\* and deserialize.
C6_BatchGetsOriginalOptions ==
  (Built /\ fallback = Undefined) =>
    /\ \A c \in CallIds :
         (Routed(c) /\ calls[c].input \notin FormDataInstances) =>
           /\ Get(heap[calls[c].target], "kind") = "httpBatchLink"
           /\ Get(heap[calls[c].target], "opts") = "@opts"
    /\ heap["@opts"] = passedIn["@opts"]
    /\ Get(heap["@opts"], "fetch") # "@adapter"
    /\ GivenTransformer # Undefined =>
         SameTransformer(heap, passedIn, GivenTransformer)
    /\ net.via = "httpBatchLink" =>
         /\ net.config = "@opts"
         /\ calls[net.call].input \notin FormDataInstances
         /\ Len(net.invocations) = 1
         /\ net.invocations[1].fn = GivenFetch
         /\ net.invocations[1].options = net.options
         /\ net.after = net.before

C6_Witness ==
  /\ Built /\ fallback = Undefined /\ GivenPair
  /\ net.via = "httpBatchLink"
  /\ calls[net.call].input = "object"
  /\ net.invocations[1].fn = "fn:userFetch"
  /\ Get(heap[Get(heap[net.config], "transformer")], "serialize") = "fn:S"
  /\ Get(HttpLinkOpts, "fetch") = "@adapter"

\* C7: with a fallback link, every non-multipart call is handled by that
\* link object, unmodified, and no batching transport is constructed or used;
\* multipart calls go to the single-request branch and never reach the
\* fallback link.
C7_FallbackUsedVerbatim ==
  (Built /\ fallback # Undefined) =>
    /\ \A c \in CallIds :
         Routed(c) =>
           IF calls[c].input \in FormDataInstances
           THEN calls[c].target = "@httpLink"
           ELSE calls[c].target = fallback
    /\ heap[fallback] = passedIn[fallback]
    /\ "@batch" \notin DOMAIN heap
    /\ net.via # "httpBatchLink"
    /\ net.via = "custom" =>
         /\ net.config = fallback
         /\ calls[net.call].input \notin FormDataInstances
    /\ net.via = "httpLink" => calls[net.call].input \in FormDataInstances

C7_Witness ==
  /\ Built /\ fallback = "@fallback"
  /\ net.via = "custom"
  /\ \E c, d \in CallIds :
       /\ calls[c].pc = "inflight" /\ calls[c].input = "FormData#1"
       /\ calls[c].target = "@httpLink"
       /\ calls[d].pc = "inflight" /\ calls[d].input = "null"
       /\ net.call = d

\* C8: after formDataLink returns and after any calls through the link, the
\* caller's opts object holds the fields it had, and the nested transformer
\* object is as it was.
C8_OptsUnchanged ==
  /\ CallerView(heap) = passedIn
  /\ Built => \A a \in DOMAIN passedIn : heap[a] = passedIn[a]

C8_Witness ==
  /\ Built /\ GivenPair
  /\ Get(passedIn["@opts"], "fetch") = "fn:userFetch"
  /\ "@Tadj" \in DOMAIN heap
  /\ Get(HttpLinkOpts, "fetch") = "@adapter"
  /\ \A c \in CallIds : calls[c].pc = "inflight"

\* C9: built with no transformer, the options of the single-request
\* transport have the adapted fetch and no transformer: it stays absent or
\* undefined, never an object.
C9_NoTransformerStaysAbsent ==
  (Built /\ GivenTransformer = Undefined) =>
    /\ Get(HttpLinkOpts, "fetch") = "@adapter"
    /\ Get(heap["@adapter"], "providedFetch") = Get(passedIn["@opts"], "fetch")
    /\ Get(HttpLinkOpts, "transformer") = Undefined
    /\ Has(HttpLinkOpts, "transformer") = Has(passedIn["@opts"], "transformer")
    /\ "@Tadj" \notin DOMAIN heap

C9_Witness ==
  /\ Built /\ ~Has(passedIn["@opts"], "transformer")
  /\ ~Has(HttpLinkOpts, "transformer")
  /\ net.via = "httpLink" /\ calls[net.call].input = "FormData#1"

\* C10: each invocation of the fetch adapter calls one delegate once: the
\* caller's fetch when given, else the ambient fetch; the delegate gets the
\* same url and options whose fields other than headers equal those passed
\* in; the options and headers objects passed in are not mutated.
C10_OneDelegateCall ==
  ViaAdapter =>
    /\ Len(net.invocations) = 1
    /\ net.invocations[1].fn = GivenFetch
    /\ net.invocations[1].url = net.url
    /\ LET D == net.after[net.invocations[1].options]
           O == IF net.options = Undefined THEN <<>>
                ELSE net.before[net.options]
       IN /\ Has(D, "headers")
          /\ Keys(D) \ {"headers"} = Keys(O) \ {"headers"}
          /\ \A k \in Keys(O) \ {"headers"} : Get(D, k) = Get(O, k)
    /\ \A a \in DOMAIN net.before : net.after[a] = net.before[a]

C10_Witness ==
  /\ ViaAdapter /\ MultipartRequest /\ HasGivenHeaders
  /\ "Content-Type" \in Keys(GivenHeaders)
  /\ net.url = "http://x/b"
  /\ net.invocations[1].fn = "fn:userFetch"
  /\ net.invocations[1].url = "http://x/b"
  /\ Get(net.after[net.invocations[1].options], "body") = "FormData#1"

\* C11: if the delegate fetch rejects or throws, the adapter's result fails
\* with the same error value, the delegate is not called a second time and no
\* other error is put in its place; if the delegate succeeds, the adapter
\* yields its response unchanged.
C11_FailurePropagates ==
  \A c \in CallIds :
    (calls[c].pc = "done" /\ CallViaAdapter(c)) =>
      /\ calls[c].netOps = 1
      /\ calls[c].result.value = calls[c].outcome.value
      /\ calls[c].result.state =
           (IF calls[c].outcome.kind = "fulfils" THEN "fulfilled"
            ELSE "rejected")

C11_Witness ==
  \E c \in CallIds :
    /\ calls[c].pc = "done" /\ CallViaAdapter(c)
    /\ calls[c].outcome = [kind |-> "throws", value |-> "error#2"]
    /\ calls[c].result = [state |-> "rejected", value |-> "error#2"]
    /\ net.call = c /\ Len(net.invocations) = 1

\* the values appended under key k, in append order
ValuesOf(fd, k) ==
  LET es == SelectSeq(fd, LAMBDA e : e.k = k)
  IN [i \in 1..Len(es) |-> es[i].v]

\* C12: formDataToObject maps a key appended two or more times to the array
\* of its values in append order, a key appended once to its single value,
\* and has the keys of the FormData and no other.
C12_RepeatedKeysToArrays ==
  (util.op = "formDataToObject" /\ util.pc = "done") =>
    /\ Keys(util.out) = Keys(util.fd)
    /\ Cardinality(Keys(util.out)) = Len(util.out)
    /\ \A k \in Keys(util.fd) :
         Has(util.out, k) /\
         Get(util.out, k) =
           (IF Len(ValuesOf(util.fd, k)) >= 2
            THEN Array(ValuesOf(util.fd, k))
            ELSE One(ValuesOf(util.fd, k)[1]))

\* the submission is k >= 1 files, all under the key "files"
FilesOnly(fd) == Len(fd) >= 1 /\ \A i \in 1..Len(fd) : fd[i].v.t = "file"

\* C13: a FormData that appends k >= 1 files under one key, exactly one
\* included, passes through formDataInput with that key validated by
\* filesSchema and yields an array of the k files, with no error other than
\* a validation error.
C13_FilesUnderOneKey ==
  (util.op = "formDataInput" /\ util.pc = "done" /\ FilesOnly(util.fd)) =>
    /\ util.out.status # "throws"
    /\ (\A n \in DOMAIN util.opts : util.opts[n] = Absent) =>
         /\ util.out.status = "ok"
         /\ util.out.value = ValuesOf(util.fd, "files")

\* every constraint given in the options is met by the files
ConstraintsMet(options, files) ==
  /\ \A i \in 1..Len(files) :
       /\ \A min \in options.minSize : files[i].size >= min
       /\ \A max \in options.maxSize : files[i].size <= max
       /\ \A types \in options.acceptedMimeTypes : files[i].mime \in types
  /\ \A min \in options.minFiles : Len(files) >= min
  /\ \A max \in options.maxFiles : Len(files) <= max

\* C14: the schema filesSchema(options) returns rejects an array with a file
\* below minSize, above maxSize or of a type not in acceptedMimeTypes, or with
\* fewer than minFiles or more than maxFiles files, and accepts an array
\* that meets every constraint given.
C14_FilesSchemaEnforcesOptions ==
  (/\ util.op = "formDataInput" /\ util.pc = "done"
   /\ FilesOnly(util.fd) /\ Len(util.fd) >= 2) =>
    (util.out.status = "ok")
      <=> ConstraintsMet(util.opts, ValuesOf(util.fd, "files"))

\* C15: zFile({minSize: m, maxSize: M}) accepts a file exactly when
\* m <= size <= M; sizes equal to m or to M are accepted.
C15_SizeBoundsInclusive ==
  (/\ util.op = "zFile" /\ util.pc = "done"
   /\ util.opts.minSize # Absent /\ util.opts.maxSize # Absent
   /\ util.opts.acceptedMimeTypes = Absent) =>
    (util.out.status = "ok")
      <=> (/\ \A m \in util.opts.minSize : m <= util.file.size
           /\ \A M \in util.opts.maxSize : util.file.size <= M)

\* two plain objects have the same keys with the same values
SameObject(a, b) ==
  /\ Keys(a) = Keys(b)
  /\ Len(a) = Len(b)
  /\ \A k \in Keys(a) : Get(a, k) = Get(b, k)

\* C19 as stated: formDataToObject(objectToFormData(o)) equals o for every
\* plain object o whose values are form values or arrays of form values,
\* arrays of one element and empty arrays included.
C19_RoundTripAll ==
  (util.op = "roundTrip" /\ util.pc = "done") =>
    SameObject(util.out, util.data)

\* every array value of o has two or more items, and no key of o names a
\* member of Object.prototype
RoundTripDomain(o) ==
  \A i \in 1..Len(o) :
    /\ o[i].v.kind = "array" => Len(o[i].v.items) >= 2
    /\ o[i].k \notin ObjectPrototypeKeys

\* C19 amended: formDataToObject(objectToFormData(o)) equals o for every
\* plain object o whose values are form values or arrays of two or more form
\* values and whose keys are not names of Object.prototype members.
\* An array of one element comes back as that element, and a key whose
\* value is an empty array is missing from the result.
C19_RoundTripTwoOrMore ==
  (util.op = "roundTrip" /\ util.pc = "done") =>
    /\ RoundTripDomain(util.data) => SameObject(util.out, util.data)
    /\ \A i \in 1..Len(util.data) :
         LET k == util.data[i].k
             v == util.data[i].v
         IN (k \notin ObjectPrototypeKeys /\ v.kind = "array") =>
              /\ Len(v.items) = 1 =>
                   Has(util.out, k) /\ Get(util.out, k) = One(v.items[1])
              /\ Len(v.items) = 0 => ~Has(util.out, k)

C19_Witness ==
  /\ util.op = "roundTrip" /\ util.pc = "done"
  /\ RoundTripDomain(util.data)
  /\ Len(util.data) = 2
  /\ \E i, j \in 1..Len(util.data) :
       /\ util.data[i].v.kind = "array" /\ Len(util.data[i].v.items) = 2
       /\ util.data[j].v.kind = "one"
  /\ Len(util.fd) = 3
  /\ SameObject(util.out, util.data)

\* C16: for every call, the routing predicate is evaluated once and before
\* any network operation of the call starts, it raises for no input, and the
\* call causes at most one network operation through the link; no second
\* transport is invoked for it.
C16_OneEvaluationOneRequest ==
  [][\A c \in CallIds :
       /\ calls'[c].evals <= 1
       /\ calls'[c].netOps <= 1
       /\ calls'[c].netOps > calls[c].netOps =>
            /\ calls[c].evals = 1 /\ calls'[c].evals = 1
            /\ calls'[c].target = calls[c].target
       /\ (calls[c].pc = "idle" /\ calls'[c].pc # "idle") =>
            /\ calls'[c].evals = 1 /\ calls'[c].netOps = 0
            /\ calls'[c].target \in {Get(heap["@split"], "true"),
                                     Get(heap["@split"], "false")}
       /\ calls[c].pc # "idle" =>
            /\ calls'[c].target = calls[c].target
            /\ calls'[c].input = calls[c].input]_vars

C16_Witness ==
  \E c, d \in CallIds :
    /\ calls[c].input = "FormData#1" /\ calls[c].pc = "done"
    /\ calls[c].evals = 1 /\ calls[c].netOps = 1
    /\ calls[d].input = Undefined /\ calls[d].pc = "routed"
    /\ calls[d].evals = 1 /\ calls[d].netOps = 0

\* C17: the branch chosen for a call depends only on the call's input: under
\* any interleaving and any history of earlier calls, calls with the same
\* input go to the same branch, as they would on a second link built from
\* the same options; no call changes the state routing reads.
C17_RoutingDependsOnInputOnly ==
  Built =>
    LET second == FormDataLinkHeap(passedIn, fallback)
    IN /\ heap["@split"] = second["@split"]
       /\ \A c, d \in CallIds :
            (Routed(c) /\ Routed(d) /\ calls[c].input = calls[d].input) =>
              calls[c].target = calls[d].target
       /\ \A c \in CallIds :
            Routed(c) =>
              calls[c].target
                = (IF calls[c].input \in FormDataInstances
                   THEN Get(second["@split"], "true")
                   ELSE Get(second["@split"], "false"))

C17_Witness ==
  \E c, d \in CallIds :
    /\ c # d
    /\ calls[c].input = "FormData#1" /\ calls[c].pc = "inflight"
    /\ calls[d].input = "FormData#1" /\ calls[d].pc = "routed"
    /\ calls[c].target = "@httpLink" /\ calls[d].target = "@httpLink"

\* the objects of a kind that the link setup holds
LinksOfKind(kind) ==
  {a \in DOMAIN heap : Has(heap[a], "kind") /\ Get(heap[a], "kind") = kind}
AdapterClosures == {a \in DOMAIN heap : Has(heap[a], "providedFetch")}

\* C18: the derived single-request configuration and the branch transports
\* are constructed once per formDataLink call; after any number of calls the
\* constructions are the same ones, and every multipart call uses the same
\* derived configuration and the same adapter function.
C18_ConstructedOnce ==
  Built =>
    /\ heap = FormDataLinkHeap(passedIn, fallback)
    /\ Cardinality(LinksOfKind("httpLink")) = 1
    /\ Cardinality(LinksOfKind("httpBatchLink"))
         = (IF fallback = Undefined THEN 1 ELSE 0)
    /\ Cardinality(AdapterClosures) = 1
    /\ \A c \in CallIds :
         (Routed(c) /\ calls[c].input \in FormDataInstances) =>
           /\ calls[c].target = "@httpLink"
           /\ Get(heap[calls[c].target], "opts") = "@adj"
           /\ Get(heap["@adj"], "fetch") = "@adapter"
    /\ net.via = "httpLink" => net.config = "@adj"

C18_Witness ==
  /\ Built /\ GivenPair
  /\ net.via = "httpLink" /\ net.config = "@adj"
  /\ \A c \in CallIds :
       /\ calls[c].input = "FormData#1"
       /\ calls[c].pc \in {"inflight", "done"}
       /\ calls[c].netOps = 1

====
